---- MODULE Spec2Model ----
(***************************************************************************)
(* A model of the support relay bot: the file-backed store of              *)
(* src/database.py (user languages, relay map, autoreply map, the TSV      *)
(* audit log) and the update handlers of src/bot.py that drive it.         *)
(*                                                                         *)
(* Text is modelled as a sequence of tokens (strings): concatenation is    *)
(* \o, and Python's `a in b` on strings is "a is a contiguous              *)
(* subsequence of b".  The empty string is <<>>.                           *)
(***************************************************************************)
EXTENDS Integers, Sequences, FiniteSets, TLC

VARIABLES
    user_languages,     \* db.data['user_languages']     : str(user id) -> language tag
    message_mappings,   \* db.data['message_mappings']   : str(group message id) -> record
    autoreply_mappings, \* db.data['autoreply_mappings'] : str(autoreply message id) -> record
    tsv,                \* the rows of TSV_FILE, header row first
    group_msgs,         \* the messages the bot has sent into GROUP_ID; the index is the message id
    clock,              \* what datetime.now() returns next
    cfg,                \* the configuration read at import: SEMI_AUTOREPLY_MODE, TOPIC_ID
    pc,                 \* position of the update handler that is running ("idle": none)
    ev,                 \* the update being handled (or handled last) and what its handler did
    delivered,          \* per autoreply key: how often its generated reply was sent to the user
    decided,            \* per autoreply key: how many decision callbacks were carried out on it
    db_file,            \* the document in db_file (bot_data.json)
    last_set,           \* per user: the language of the latest set_user_language call ("none": no call)
    quiet               \* the update handled last left no trace but ev

vars == <<user_languages, message_mappings, autoreply_mappings, tsv, group_msgs,
          clock, cfg, pc, ev, delivered, decided, db_file, last_set, quiet>>

stores == <<user_languages, message_mappings, autoreply_mappings>>

\* What an update can leave a trace in.
traces == <<user_languages, message_mappings, autoreply_mappings, tsv, group_msgs,
            delivered, decided, last_set>>

\* The dispatcher hands the next update to its handler when no handler runs.
\* ev is written and never read by a handler that starts, so the updates that
\* can follow an update without a trace are the ones that can follow the state
\* before it, with the same results: the model explores them from there only.
Idle == pc = "idle" /\ ~quiet

-----------------------------------------------------------------------------
(* Bounds of the model. *)

MaxClock == 3       \* number of updates that write to the log or send to the group
MaxGroupMsgs == 4   \* number of messages the bot sends into GROUP_ID
MaxRows == 2        \* number of turns a client of the store appends to the log

(* Program constants. *)

GROUP_ID == 100         \* the support destination (config.GROUP_ID)
AutoreplyQuoteLen == 50 \* question[:50] in generate_autoreply

DEFAULT_LANGUAGE == "en"
Langs == {"en", "ru", "ka"}

(* The inputs the transport delivers. *)

Users == {1, 2}
Members == {2}                        \* the users that write in groups
SourceGroup == 200                    \* a group that is not the support destination
Groups == {GROUP_ID, SourceGroup}
BotName == "bot"
Mention == "@" \o BotName
UserTexts == {<<"Hello">>, <<"Help">>}
GroupTexts == {<<"ping">>, <<"ping", Mention>>, <<Mention>>}
\* the group texts that are no reply: also the bot named the other way the
\* mention test knows, "/" and the username (line 265)
MentionTexts == GroupTexts \cup {<<"/" \o BotName>>}
Topics == {<<>>, <<"5">>}             \* TOPIC_ID unset, or the id of a sub-thread

\* The user_languages map _load_data finds in bot_data.json at start-up: one
\* user has chosen a language, the other has not.
StoredLanguages == {[k \in {"1"} |-> "ru"]}

PyNone == <<"#None">>                 \* Python's None where a str is expected
NoneInfo == [none |-> TRUE]           \* Python's None where a dict is expected
NoneTuple == <<>>                     \* Python's None where a tuple is expected
NoGroup == 0                          \* no source group

-----------------------------------------------------------------------------
(* Python helpers. *)

Digits == <<"0", "1", "2", "3", "4", "5", "6", "7", "8", "9">>

RECURSIVE str(_)
str(n) ==
    IF n < 0 THEN "-" \o str(-n)
    ELSE IF n < 10 THEN Digits[n + 1]
    ELSE str(n \div 10) \o Digits[(n % 10) + 1]

Min(a, b) == IF a < b THEN a ELSE b

\* d[k] = v
Put(d, k, v) == [x \in (DOMAIN d) \cup {k} |-> IF x = k THEN v ELSE d[x]]

\* d.get(k, default)
Get(d, k, default) == IF k \in DOMAIN d THEN d[k] ELSE default

\* needle in hay
Contains(hay, needle) ==
    \E i \in 0..(Len(hay) - Len(needle)) :
        SubSeq(hay, i + 1, i + Len(needle)) = needle

\* s.replace(tok, ""): every occurrence of the token is removed
RECURSIVE Remove(_, _)
Remove(s, tok) ==
    IF s = <<>> THEN <<>>
    ELSE IF Head(s) = tok THEN Remove(Tail(s), tok)
    ELSE <<Head(s)>> \o Remove(Tail(s), tok)

\* datetime.now().isoformat()
isoformat(t) == <<"T" \o str(t)>>

\* LANGUAGES[lang][key]
LANGUAGES(lang, key) == <<lang \o ":" \o key>>

\* user.username
user_handle(u) == "user" \o str(u)

\* update.message.message_id: the id the originating chat gave the incoming
\* message; ids grow with time and differ from update to update
IncomingId(t) == 10 + t

-----------------------------------------------------------------------------
(* src/database.py *)

\* a writer that writes None as a word
csv_cell_as_written(v) == v

\* what csv.writer writes for one value, as csv.reader reads it back
csv_cell(v) == IF v = PyNone THEN <<>> ELSE v

csv_row(row) == [i \in 1..Len(row) |-> csv_cell(row[i])]

Header == <<<<"Timestamp">>, <<"Question">>, <<"Autoreply">>, <<"Manual reply">>, <<"is_approved">>>>

\* a log that keeps the newest turn first
add_conversation_newest_first(rows, question, autoreply, manual_reply, is_approved, timestamp) ==
    <<Head(rows), csv_row(<<timestamp, question, autoreply, manual_reply, is_approved>>)>>
        \o Tail(rows)

add_conversation(rows, question, autoreply, manual_reply, is_approved, timestamp) ==
    Append(rows, csv_row(<<timestamp, question, autoreply, manual_reply, is_approved>>))

\* an update that appends a row instead of rewriting the last one
update_conversation_appending(rows, question, autoreply, manual_reply, is_approved, timestamp) ==
    Append(rows, csv_row(<<timestamp, question, autoreply, manual_reply, is_approved>>))

\* an update that finds its turn by the question
update_conversation_by_question(rows, question, autoreply, manual_reply, is_approved, timestamp) ==
    LET hits == {i \in 2..Len(rows) : rows[i][2] = csv_cell(question)}
    IN  IF hits = {} THEN rows
        ELSE [rows EXCEPT ![CHOOSE i \in hits : \A j \in hits : j <= i] =
                  csv_row(<<timestamp, question, autoreply, manual_reply, is_approved>>)]

\* The rows read by csv.reader, the last one replaced, are all written back
\* by csv.writer (lines 56-71).
update_conversation(rows, question, autoreply, manual_reply, is_approved, timestamp) ==
    IF Len(rows) > 1
    THEN [i \in 1..Len(rows) |->
              csv_row(IF i = Len(rows)
                      THEN <<timestamp, question, autoreply, manual_reply, is_approved>>
                      ELSE rows[i])]
    ELSE rows

\* a first-write-wins store
set_user_language_once(ul, user_id, language) ==
    IF str(user_id) \in DOMAIN ul THEN ul ELSE Put(ul, str(user_id), language)

set_user_language(ul, user_id, language) == Put(ul, str(user_id), language)

get_user_language(ul, user_id) == Get(ul, str(user_id), "en")

\* a store that keeps the latest record only
store_message_mapping_replacing(mm, args) ==
    IF Len(args) # 3
    THEN [raised |-> TRUE, data |-> mm]
    ELSE [raised |-> FALSE,
          data |-> Put(<<>>, str(args[2]), [user_message_id |-> args[1], user_id |-> args[3]])]

\* a store keyed by the id of the user's message
store_message_mapping_by_origin(mm, args) ==
    IF Len(args) # 3
    THEN [raised |-> TRUE, data |-> mm]
    ELSE [raised |-> FALSE,
          data |-> Put(mm, str(args[1]), [user_message_id |-> args[1], user_id |-> args[3]])]

\* args: the positional arguments of the call.  The method takes three
\* (user_message_id, group_message_id, user_id); any other number is a TypeError
\* raised before the body runs.
store_message_mapping(mm, args) ==
    IF Len(args) # 3
    THEN [raised |-> TRUE, data |-> mm]
    ELSE [raised |-> FALSE,
          data |-> Put(mm, str(args[2]), [user_message_id |-> args[1], user_id |-> args[3]])]

get_user_from_group_message(mm, group_message_id) ==
    IF str(group_message_id) \in DOMAIN mm
    THEN <<mm[str(group_message_id)].user_id, mm[str(group_message_id)].user_message_id>>
    ELSE NoneTuple

store_autoreply_mapping(am, autoreply_message_id, user_id, question, autoreply) ==
    Put(am, str(autoreply_message_id),
        [user_id |-> user_id, question |-> question, autoreply |-> autoreply])

\* a lookup that falls back to some record when the key is missing
get_autoreply_info_any(am, autoreply_message_id) ==
    Get(am, str(autoreply_message_id),
        IF DOMAIN am = {} THEN NoneInfo ELSE am[CHOOSE k \in DOMAIN am : TRUE])

get_autoreply_info(am, autoreply_message_id) ==
    Get(am, str(autoreply_message_id), NoneInfo)

-----------------------------------------------------------------------------
(* src/database.py: the JSON image of self.data in db_file.  A document is a  *)
(* sequence of tokens: punctuation, numbers in decimal, quoted strings; a text *)
(* is written as its tokens between two quote tokens.                          *)

\* self.data
Data(ul, mm, am) == [user_languages |-> ul, message_mappings |-> mm, autoreply_mappings |-> am]

\* the numbers a document of the model can hold
JsonInts == 0..IncomingId(MaxClock + 1)

\* the strings a document of the model can hold
JsonStrings ==
    {str(n) : n \in JsonInts} \cup Langs
        \cup {"user_languages", "message_mappings", "group_mappings", "autoreply_mappings",
              "user_message_id", "user_id", "question", "autoreply"}

json_string(s) == "\"" \o s \o "\""

json_text(t) == <<"\"">> \o t \o <<"\"">>

\* int(s) for a decimal numeral
int(tok) == CHOOSE n \in JsonInts : str(n) = tok

json_unquote(tok) == CHOOSE x \in JsonStrings : json_string(x) = tok

\* The keys of a dict in the order json.dump writes them: the order of
\* insertion, which for the maps of the store is the order of growing ids.
RECURSIVE KeysInOrder(_)
KeysInOrder(keys) ==
    IF keys = {} THEN <<>>
    ELSE LET k == CHOOSE x \in keys : \A y \in keys : int(x) <= int(y)
         IN  <<k>> \o KeysInOrder(keys \ {k})

\* json.dump of one value of each map
dump_language(v) == <<json_string(v)>>

dump_message_mapping(v) ==
    <<"{", json_string("user_message_id"), ":", str(v.user_message_id), ",",
      json_string("user_id"), ":", str(v.user_id), "}">>

dump_autoreply_mapping(v) ==
    <<"{", json_string("user_id"), ":", str(v.user_id), ",", json_string("question"), ":">>
        \o json_text(v.question) \o <<",", json_string("autoreply"), ":">>
        \o json_text(v.autoreply) \o <<"}">>

dump_value(section, v) ==
    IF section = "user_languages" THEN dump_language(v)
    ELSE IF section = "message_mappings" THEN dump_message_mapping(v)
    ELSE dump_autoreply_mapping(v)

RECURSIVE dump_members(_, _, _)
dump_members(section, d, keys) ==
    IF keys = <<>> THEN <<>>
    ELSE <<json_string(Head(keys)), ":">> \o dump_value(section, d[Head(keys)])
             \o (IF Len(keys) > 1 THEN <<",">> ELSE <<>>)
             \o dump_members(section, d, Tail(keys))

dump_object(section, d) ==
    <<"{">> \o dump_members(section, d, KeysInOrder(DOMAIN d)) \o <<"}">>

\* json.dump(self.data, f)
json_dump(data) ==
    <<"{", json_string("user_languages"), ":">>
        \o dump_object("user_languages", data.user_languages)
        \o <<",", json_string("message_mappings"), ":">>
        \o dump_object("message_mappings", data.message_mappings)
        \o <<",", json_string("group_mappings"), ":", "{", "}", ",",
             json_string("autoreply_mappings"), ":">>
        \o dump_object("autoreply_mappings", data.autoreply_mappings)
        \o <<"}">>

\* The index of the last token of the value that starts at token i.
RECURSIVE ValueEnd(_, _, _, _)
ValueEnd(toks, i, depth, quoted) ==
    LET t == toks[i]
    IN  IF quoted
        THEN IF t = "\""
             THEN IF depth = 0 THEN i ELSE ValueEnd(toks, i + 1, depth, FALSE)
             ELSE ValueEnd(toks, i + 1, depth, TRUE)
        ELSE IF t = "\"" THEN ValueEnd(toks, i + 1, depth, TRUE)
        ELSE IF t = "{" THEN ValueEnd(toks, i + 1, depth + 1, FALSE)
        ELSE IF t = "}"
        THEN IF depth = 1 THEN i ELSE ValueEnd(toks, i + 1, depth - 1, FALSE)
        ELSE IF depth = 0 THEN i ELSE ValueEnd(toks, i + 1, depth, FALSE)

\* The members of the object whose first member starts at token i, as pairs
\* <<key token, tokens of the value>>.
RECURSIVE parse_members(_, _)
parse_members(toks, i) ==
    IF toks[i] = "}" THEN <<>>
    ELSE LET e == ValueEnd(toks, i + 2, 0, FALSE)
             next == IF toks[e + 1] = "," THEN e + 2 ELSE e + 1
         IN  <<<<toks[i], SubSeq(toks, i + 2, e)>>>> \o parse_members(toks, next)

\* An object as a dict from its keys to the tokens of their values; of two
\* members with one key the later one stays.
parse_object(toks) ==
    LET ms == parse_members(toks, 2)
        last(k) == CHOOSE n \in 1..Len(ms) :
                       /\ json_unquote(ms[n][1]) = k
                       /\ \A m \in 1..Len(ms) : json_unquote(ms[m][1]) = k => m <= n
    IN  [k \in {json_unquote(ms[n][1]) : n \in 1..Len(ms)} |-> ms[last(k)][2]]

parse_text(toks) == SubSeq(toks, 2, Len(toks) - 1)

parse_language(toks) == json_unquote(toks[1])

parse_message_mapping(toks) ==
    LET o == parse_object(toks)
    IN  [user_message_id |-> int(o["user_message_id"][1]), user_id |-> int(o["user_id"][1])]

parse_autoreply_mapping(toks) ==
    LET o == parse_object(toks)
    IN  [user_id |-> int(o["user_id"][1]), question |-> parse_text(o["question"]),
         autoreply |-> parse_text(o["autoreply"])]

\* json.load(f)
json_load(doc) ==
    LET top == parse_object(doc)
        ul == parse_object(top["user_languages"])
        mm == parse_object(top["message_mappings"])
        am == parse_object(top["autoreply_mappings"])
    IN  Data([k \in DOMAIN ul |-> parse_language(ul[k])],
             [k \in DOMAIN mm |-> parse_message_mapping(mm[k])],
             [k \in DOMAIN am |-> parse_autoreply_mapping(am[k])])

\* a save that leaves the file as it was
_save_data_skipped(file, data) == file

\* _save_data: the file is rewritten with the image of self.data
_save_data(file, data) == json_dump(data)

\* _load_data: db_file exists and holds a document
_load_data(file) == json_load(file)

-----------------------------------------------------------------------------
(* src/bot.py: helpers *)

generate_autoreply(question) ==
    <<"[AUTO-REPLY] Thank you for your message: '">>
        \o SubSeq(question, 1, Min(Len(question), AutoreplyQuoteLen))
        \o <<"...'. Our team will review this and get back to you shortly.">>

\* one outbound transport call: bot.send_message / reply_text to a chat
Send(chat, text) == [chat |-> chat, text |-> text]

\* a message of the support group: its text, the id carried in its buttons'
\* callback data (0: no buttons) and the thread it was sent to (<<>>: none)
GroupMsg(text, callback_id, thread) ==
    [text |-> text, callback_id |-> callback_id, thread |-> thread]

\* The transport after one more successful send: a message sent to GROUP_ID
\* becomes a message of the support group, with the next message id.
Emit(t, chat, text, callback_id, thread) ==
    [msgs |-> IF chat = GROUP_ID
              THEN Append(t.msgs, GroupMsg(text, callback_id, thread))
              ELSE t.msgs,
     sends |-> Append(t.sends, Send(chat, text))]

\* sent_message.message_id of the message just sent to GROUP_ID
SentId(t) == Len(t.msgs)

NoEvent == [kind |-> "none"]

\* "From: @{user_handle}\n\n{update.message.text}"
private_message_text(u, text) == <<"From: @", user_handle(u), "\n\n">> \o text

-----------------------------------------------------------------------------
Init ==
    /\ user_languages \in StoredLanguages
    /\ message_mappings = <<>>
    /\ autoreply_mappings = <<>>
    /\ db_file = json_dump(Data(user_languages, message_mappings, autoreply_mappings))
    /\ tsv = <<Header>>
    /\ group_msgs = <<>>
    /\ clock = 1
    /\ cfg \in [autoreply : BOOLEAN, topic : Topics]
    /\ pc = "idle"
    /\ ev = NoEvent
    /\ delivered = <<>>
    /\ decided = <<>>
    /\ last_set = [u \in Users |-> Get(user_languages, str(u), "none")]
    /\ quiet = FALSE

\* db_file after a handler that leaves self.data as (ul, mm, am): every method
\* that changes self.data ends with self._save_data() (lines 76, 88, 104).
Persist(ul, mm, am) ==
    IF <<ul, mm, am>> = stores THEN db_file ELSE _save_data(db_file, Data(ul, mm, am))

\* language_callback
language_callback ==
    /\ Idle
    /\ \E u \in Users, language_code \in Langs :
        /\ user_languages' = set_user_language(user_languages, u, language_code)
        /\ last_set' = [last_set EXCEPT ![u] = language_code]
        /\ db_file' = Persist(user_languages', message_mappings, autoreply_mappings)
        /\ ev' = [kind |-> "language", sends |-> <<>>,
                  edits |-> <<LANGUAGES(language_code, "language_selected")>>]
    /\ UNCHANGED <<message_mappings, autoreply_mappings, tsv, group_msgs, clock, cfg, pc,
                   delivered, decided>>
    /\ quiet' = (traces' = traces)

\* Time passes with every update that leaves a trace: the next timestamp
\* differs from the ones handed out before.
Elapsed(rows, msgs) == IF rows # tsv \/ msgs # group_msgs THEN 1 ELSE 0

\* handle_private_message, lines 76-118: forward the text to the group, store
\* the mapping, append the turn.  forward_ok: whether the send to GROUP_ID
\* succeeds.  A raised exception ends in the handler's except clause, which
\* sends the error notice to the user.
private_forward(u, text, forward_ok) ==
    LET mid == IncomingId(clock)
        user_language == get_user_language(user_languages, u)
        timestamp == isoformat(clock)
        t0 == [msgs |-> group_msgs, sends |-> <<>>]
        t1 == Emit(t0, GROUP_ID, private_message_text(u, text), 0, cfg.topic)
        stored == store_message_mapping(message_mappings, <<mid, SentId(t1), u>>)
        base == [kind |-> "private", user |-> u, text |-> text, mid |-> mid,
                 timestamp |-> timestamp, language |-> user_language, edits |-> <<>>,
                 calls |-> IF forward_ok THEN <<<<mid, SentId(t1), u>>>> ELSE <<>>]
    IN  IF ~forward_ok
        THEN [pc |-> "idle", mm |-> message_mappings, tsv |-> tsv, msgs |-> group_msgs,
              ev |-> base @@
                     [sent_id |-> 0, outcome |-> "error",
                      sends |-> <<Send(u, LANGUAGES(user_language, "error_occurred"))>>]]
        ELSE IF stored.raised
        THEN [pc |-> "idle", mm |-> stored.data, tsv |-> tsv, msgs |-> t1.msgs,
              ev |-> base @@
                     [sent_id |-> SentId(t1), outcome |-> "error",
                      sends |-> Append(t1.sends,
                                       Send(u, LANGUAGES(user_language, "error_occurred")))]]
        ELSE [pc |-> "appended", mm |-> stored.data,
              tsv |-> add_conversation(tsv, text, <<>>, <<>>, PyNone, timestamp),
              msgs |-> t1.msgs,
              ev |-> base @@
                     [sent_id |-> SentId(t1), outcome |-> "running", sends |-> t1.sends]]

PrivateForward ==
    /\ Idle
    /\ clock <= MaxClock
    /\ \E u \in Users, text \in UserTexts, forward_ok \in BOOLEAN :
        LET r == private_forward(u, text, forward_ok)
        IN  /\ Len(r.msgs) + (IF cfg.autoreply /\ r.pc = "appended" THEN 1 ELSE 0)
                   <= MaxGroupMsgs
            /\ pc' = r.pc
            /\ message_mappings' = r.mm
            /\ db_file' = Persist(user_languages, r.mm, autoreply_mappings)
            /\ tsv' = r.tsv
            /\ group_msgs' = r.msgs
            /\ ev' = r.ev
            /\ clock' = clock + Elapsed(r.tsv, r.msgs)
    /\ UNCHANGED <<user_languages, autoreply_mappings, cfg, delivered, decided, last_set>>
    /\ quiet' = (traces' = traces)

\* handle_private_message, lines 120-164: offer the generated reply with its
\* approve/discard buttons when the mode is on, then confirm to the user.
private_offer(control_ok, confirm_ok) ==
    LET u == ev.user
        text == ev.text
        autoreply == generate_autoreply(text)
        autoreply_text == LANGUAGES(ev.language, "generated_reply") \o <<"\n\n">> \o autoreply
        t0 == [msgs |-> group_msgs, sends |-> ev.sends]
        t1 == Emit(t0, GROUP_ID, autoreply_text, ev.sent_id, cfg.topic)
        failed(t) == Append(t.sends, Send(u, LANGUAGES(ev.language, "error_occurred")))
        confirmed(t) == Append(t.sends, Send(u, LANGUAGES(ev.language, "message_forwarded")))
    IN  IF cfg.autoreply
        THEN IF ~control_ok
             THEN [am |-> autoreply_mappings, tsv |-> tsv, msgs |-> group_msgs,
                   ev |-> [ev EXCEPT !.outcome = "error", !.sends = failed(t0)]]
             ELSE [am |-> store_autoreply_mapping(autoreply_mappings, SentId(t1), u, text,
                                                  autoreply),
                   tsv |-> update_conversation(tsv, text, autoreply, <<>>, PyNone,
                                               ev.timestamp),
                   msgs |-> t1.msgs,
                   ev |-> IF confirm_ok
                          THEN [ev EXCEPT !.outcome = "offered", !.sends = confirmed(t1)]
                          ELSE [ev EXCEPT !.outcome = "error", !.sends = failed(t1)]]
        ELSE [am |-> autoreply_mappings, tsv |-> tsv, msgs |-> group_msgs,
              ev |-> IF confirm_ok
                     THEN [ev EXCEPT !.outcome = "forwarded", !.sends = confirmed(t0)]
                     ELSE [ev EXCEPT !.outcome = "error", !.sends = failed(t0)]]

PrivateOffer ==
    /\ pc = "appended"
    /\ \E control_ok \in BOOLEAN, confirm_ok \in BOOLEAN :
        LET r == private_offer(control_ok, confirm_ok)
        IN  /\ autoreply_mappings' = r.am
            /\ db_file' = Persist(user_languages, message_mappings, r.am)
            /\ tsv' = r.tsv
            /\ group_msgs' = r.msgs
            /\ ev' = r.ev
    /\ pc' = "idle"
    /\ UNCHANGED <<user_languages, message_mappings, clock, cfg, delivered, decided, last_set>>
    /\ quiet' = FALSE   \* the update had its copy forwarded

\* an approve branch that writes the log before it sends
approve_branch_logging_first(message_id, send_ok) ==
    LET autoreply_info == get_autoreply_info(autoreply_mappings, message_id)
        user_language == get_user_language(user_languages, autoreply_info.user_id)
        shown == LANGUAGES(user_language, "generated_reply") \o <<"\n\n">>
                     \o autoreply_info.autoreply
        updated == update_conversation(tsv, autoreply_info.question, autoreply_info.autoreply,
                                       <<>>, <<"Approved">>, isoformat(clock))
    IN  IF autoreply_info # NoneInfo
        THEN IF send_ok
             THEN [outcome |-> "approved", ticks |-> 1,
                   sends |-> <<Send(autoreply_info.user_id, shown)>>, tsv |-> updated,
                   edits |-> <<shown \o <<"\n\n">> \o LANGUAGES(user_language, "reply_approved")>>]
             ELSE [outcome |-> "error", ticks |-> 1, sends |-> <<>>, tsv |-> updated,
                   edits |-> <<<<"Error occurred while approving autoreply">>>>]
        ELSE [outcome |-> "not_found", ticks |-> 0, sends |-> <<>>, tsv |-> tsv,
              edits |-> <<<<"Error: Autoreply info not found">>>>]

\* handle_approval_callback, lines 177-215: action == "approve".
\* send_ok: whether the send to the user succeeds.
approve_branch(message_id, send_ok) ==
    LET autoreply_info == get_autoreply_info(autoreply_mappings, message_id)
        target_user_id == autoreply_info.user_id
        autoreply == autoreply_info.autoreply
        user_language == get_user_language(user_languages, target_user_id)
        shown == LANGUAGES(user_language, "generated_reply") \o <<"\n\n">> \o autoreply
    IN  IF autoreply_info # NoneInfo
        THEN IF send_ok
             THEN [outcome |-> "approved", ticks |-> 1,
                   sends |-> <<Send(target_user_id, shown)>>,
                   tsv |-> update_conversation(tsv, autoreply_info.question, autoreply, <<>>,
                                               <<"Approved">>, isoformat(clock)),
                   edits |-> <<shown \o <<"\n\n">> \o LANGUAGES(user_language, "reply_approved")>>]
             ELSE [outcome |-> "error", ticks |-> 0, sends |-> <<>>, tsv |-> tsv,
                   edits |-> <<<<"Error occurred while approving autoreply">>>>]
        ELSE [outcome |-> "not_found", ticks |-> 0, sends |-> <<>>, tsv |-> tsv,
              edits |-> <<<<"Error: Autoreply info not found">>>>]

\* a discard that sends the reply all the same
discard_branch_sending(message_id) ==
    [approve_branch(message_id, TRUE) EXCEPT !.outcome = "discarded"]

\* handle_approval_callback, lines 217-246: action == "discard".
discard_branch(message_id) ==
    LET autoreply_info == get_autoreply_info(autoreply_mappings, message_id)
        target_user_id == autoreply_info.user_id
        user_language == get_user_language(user_languages, target_user_id)
        shown == LANGUAGES(user_language, "generated_reply") \o <<"\n\n">>
                     \o autoreply_info.autoreply
    IN  IF autoreply_info # NoneInfo
        THEN [outcome |-> "discarded", ticks |-> 1, sends |-> <<>>,
              tsv |-> update_conversation(tsv, autoreply_info.question,
                                          autoreply_info.autoreply, <<>>, <<"Discarded">>,
                                          isoformat(clock)),
              edits |-> <<shown \o <<"\n\n">> \o LANGUAGES(user_language, "reply_discarded")>>]
        ELSE [outcome |-> "not_found", ticks |-> 0, sends |-> <<>>, tsv |-> tsv,
              edits |-> <<<<"Error: Autoreply info not found">>>>]

\* The ids a callback query can carry: query.data is chosen by the client, and
\* the Bot API warns that the message the query comes from may hold no button
\* with that data.
CallbackIds == 1..MaxGroupMsgs

\* The callback data of the buttons of the support group's messages.
ButtonIds == {group_msgs[i].callback_id : i \in 1..Len(group_msgs)} \ {0}

Bump(count, key) == Put(count, key, Get(count, key, 0) + 1)

\* The callbacks that can differ: an id no message of the group has yet stands
\* for every unknown id, and only the approve branch of a known record makes a
\* transport call that can fail.
callback_inputs ==
    {<<action, message_id, send_ok>> \in
         {"approve", "discard"} \X CallbackIds \X BOOLEAN :
       /\ message_id <= Len(group_msgs) + 1
       /\ send_ok \/ (action = "approve"
                      /\ get_autoreply_info(autoreply_mappings, message_id) # NoneInfo)}

handle_approval_callback ==
    /\ Idle
    /\ \E in \in callback_inputs :
        LET action == in[1]
            message_id == in[2]
            r == IF action = "approve"
                 THEN approve_branch(message_id, in[3])
                 ELSE discard_branch(message_id)
            key == str(message_id)
        IN  /\ clock + r.ticks <= MaxClock + 1
            /\ clock' = clock + r.ticks
            /\ tsv' = r.tsv
            /\ ev' = [kind |-> "callback", action |-> action, id |-> message_id,
                      from_button |-> message_id \in ButtonIds,
                      decided_before |-> Get(decided, key, 0),
                      outcome |-> r.outcome, sends |-> r.sends, edits |-> r.edits]
            /\ delivered' = IF r.sends # <<>> THEN Bump(delivered, key) ELSE delivered
            /\ decided' = IF r.outcome \in {"approved", "discarded"}
                          THEN Bump(decided, key) ELSE decided
    /\ UNCHANGED <<user_languages, message_mappings, autoreply_mappings, group_msgs, cfg, pc,
                   db_file, last_set>>
    /\ quiet' = (traces' = traces)

\* update.effective_chat.title
group_title(chat) == "group" \o str(chat)

\* is_bot_mentioned, lines 248-293, for a text message
\* a test that takes every text for a mention
is_bot_mentioned_any(text) == text # <<>>

is_bot_mentioned(text) ==
    \/ Contains(text, <<"@" \o BotName>>)
    \/ Contains(text, <<"/" \o BotName>>)

\* The first value of db.data['autoreply_mappings'] (a dict lists its keys in the
\* order they were inserted: growing message ids) whose user is user_id and
\* whose question occurs in the replied-to text; lines 324-329.
find_autoreply(am, user_id, replied_text) ==
    LET hits == {i \in 1..MaxGroupMsgs + 1 :
                    /\ str(i) \in DOMAIN am
                    /\ am[str(i)].user_id = user_id
                    /\ Contains(replied_text, am[str(i)].question)}
    IN  IF hits = {} THEN NoneInfo
        ELSE am[str(CHOOSE i \in hits : \A j \in hits : i <= j)]

\* line 367: the text after the first blank line of the replied-to message
question_of(replied_text) ==
    LET stripped == Remove(replied_text, "From: @")
        cuts == {i \in 1..Len(stripped) : stripped[i] = "\n\n"}
        first == CHOOSE i \in cuts : \A j \in cuts : i <= j
    IN  IF Contains(replied_text, <<"\n\n">>)
        THEN SubSeq(stripped, first + 1, Len(stripped))
        ELSE replied_text

\* handle_group_message, lines 318-377: the replied-to message has a mapping.
\* Line 319 unpacks three values from user_info; with any other number of
\* values Python raises ValueError, outside every try block.
reply_branch(user_info, replied_text, text, oks) ==
    LET user_id == user_info[1]
        source_group_id == user_info[3]
        user_language == get_user_language(user_languages, user_id)
        autoreply_info == find_autoreply(autoreply_mappings, user_id, replied_text)
        sent == IF source_group_id # NoGroup
                THEN Send(source_group_id, <<"@@" \o str(user_id) \o ": ">> \o text)
                ELSE Send(user_id, LANGUAGES(user_language, "reply_received")
                                       \o <<"\n\n">> \o text)
        updated == IF autoreply_info # NoneInfo
                   THEN update_conversation(tsv, autoreply_info.question,
                                            autoreply_info.autoreply, text, <<"Discarded">>,
                                            isoformat(clock))
                   ELSE update_conversation(tsv, question_of(replied_text), <<>>, text,
                                            PyNone, isoformat(clock))
    IN  IF Len(user_info) # 3
        THEN [outcome |-> "ValueError", sends |-> <<>>, tsv |-> tsv]
        ELSE IF oks[1]
        THEN [outcome |-> "replied", sends |-> <<sent>>, tsv |-> updated]
        ELSE [outcome |-> "send_failed", sends |-> <<>>, tsv |-> tsv]

\* One attempt to forward a mention to GROUP_ID and to store its mapping
\* (lines 402-411, 416-424, 427-435).  raised: the attempt ended in an exception.
forward_attempt(t, mm, ok, thread, full_message, mid, user_id, group_id) ==
    LET t1 == Emit(t, GROUP_ID, full_message, 0, thread)
        args == <<mid, SentId(t1), user_id, group_id>>
        stored == store_message_mapping(mm, args)
    IN  IF ok
        THEN [t |-> t1, mm |-> stored.data, raised |-> stored.raised, calls |-> <<args>>]
        ELSE [t |-> t, mm |-> mm, raised |-> TRUE, calls |-> <<>>]

\* handle_group_message, lines 379-455: no mapping, and the bot is mentioned.
mention_branch(chat, sender, mid, text, oks) ==
    LET reply_text == Remove(text, "@" \o BotName)
        full_message == <<"From group: ", group_title(chat), "\nFrom user: @",
                          user_handle(sender), "\n\n">> \o reply_text
        t0 == [msgs |-> group_msgs, sends |-> <<>>]
        a1 == forward_attempt(t0, message_mappings, oks[1],
                              IF cfg.topic # <<>> THEN cfg.topic ELSE <<>>,
                              full_message, mid, sender, chat)
        a2 == forward_attempt(a1.t, a1.mm, oks[2], <<>>, full_message, mid, sender, chat)
        a == IF cfg.topic # <<>> /\ a1.raised
             THEN [a2 EXCEPT !.calls = a1.calls \o a2.calls]
             ELSE a1
        confirmed == Emit(a.t, chat, <<"Your message has been forwarded to the support team.">>,
                          0, <<>>)
        notice(t) == IF oks[4]
                     THEN Emit(t, chat, <<"An error occurred while forwarding your message.">>,
                               0, <<>>)
                     ELSE t
    IN  IF reply_text = <<>>
        THEN [outcome |-> "ignored", t |-> t0, mm |-> message_mappings, calls |-> <<>>]
        ELSE IF a.raised
        THEN [outcome |-> "error", t |-> notice(a.t), mm |-> a.mm, calls |-> a.calls]
        ELSE IF oks[3]
        THEN [outcome |-> "forwarded", t |-> confirmed, mm |-> a.mm, calls |-> a.calls]
        ELSE [outcome |-> "error", t |-> notice(a.t), mm |-> a.mm, calls |-> a.calls]

\* reply_to_message.text: the text of a message of the support group, or of a
\* message the bot did not send
replied_text_of(chat, reply_to) ==
    IF chat = GROUP_ID /\ reply_to \in 1..Len(group_msgs)
    THEN group_msgs[reply_to].text
    ELSE <<"chat">>

\* handle_group_message, lines 295-457.  reply_to = 0: the message is no reply.
\* oks: which of the handler's transport calls succeed (1: the send to the
\* mapped party or the first forward, 2: the fallback forward, 3: the
\* confirmation, 4: the error notice).
group_message(chat, sender, reply_to, text, oks) ==
    LET bot_mentioned == is_bot_mentioned(text)
        user_info == get_user_from_group_message(message_mappings, reply_to)
        replied_text == replied_text_of(chat, reply_to)
        base == [kind |-> "group_reply", chat |-> chat, reply_to |-> reply_to, text |-> text,
                 mentioned |-> bot_mentioned, found |-> user_info # NoneTuple, edits |-> <<>>]
        rb == reply_branch(user_info, replied_text, text, oks)
        mb == mention_branch(chat, sender, IncomingId(clock), text, oks)
        same == [tsv |-> tsv, msgs |-> group_msgs, mm |-> message_mappings]
    IN  IF reply_to = 0
        THEN same @@ [ev |-> base @@ [outcome |-> "ignored", sends |-> <<>>, calls |-> <<>>]]
        ELSE IF user_info # NoneTuple
        THEN [same EXCEPT !.tsv = rb.tsv] @@
             [ev |-> base @@ [outcome |-> rb.outcome, sends |-> rb.sends, calls |-> <<>>]]
        ELSE IF bot_mentioned
        THEN [same EXCEPT !.msgs = mb.t.msgs, !.mm = mb.mm] @@
             [ev |-> base @@ [outcome |-> mb.outcome, sends |-> mb.t.sends,
                              calls |-> mb.calls]]
        ELSE same @@ [ev |-> base @@ [outcome |-> "ignored", sends |-> <<>>, calls |-> <<>>]]

\* The transport outcomes: at most one of the handler's calls fails.
Outcomes == {[i \in 1..4 |-> i # k] : k \in 0..4}

\* The outcomes that can differ for this update: a handler that makes no
\* transport call has none, one that finds a mapping makes one call, and the
\* fallback forward exists only with a TOPIC_ID.
outcomes_of(reply_to, text) ==
    IF get_user_from_group_message(message_mappings, reply_to) # NoneTuple
    THEN {o \in Outcomes : o[2] /\ o[3] /\ o[4]}
    ELSE IF reply_to # 0 /\ is_bot_mentioned(text) /\ Remove(text, "@" \o BotName) # <<>>
    THEN {o \in Outcomes : cfg.topic = <<>> => o[2]}
    ELSE {o \in Outcomes : \A i \in 1..4 : o[i]}

\* The group members whose update can differ: the sender is read only when
\* a mention is forwarded.
senders_of(reply_to, text) ==
    IF get_user_from_group_message(message_mappings, reply_to) = NoneTuple
       /\ reply_to # 0 /\ is_bot_mentioned(text)
    THEN Members
    ELSE {CHOOSE u \in Members : TRUE}

\* The replied-to messages whose update can differ: the handler reads the
\* replied-to message only when it has a mapping, so the first message without
\* one stands for all of them.
targets_of ==
    LET ids == 1..(Len(group_msgs) + 1)
        mapped == {i \in ids :
                      get_user_from_group_message(message_mappings, i) # NoneTuple}
    IN  mapped \cup {CHOOSE i \in ids \ mapped : \A j \in ids \ mapped : i <= j}

\* The handler is registered for replies only (filters.REPLY, line 1187).
handle_group_message ==
    /\ Idle
    /\ \E chat \in Groups, reply_to \in targets_of, text \in GroupTexts :
       \E sender \in senders_of(reply_to, text), oks \in outcomes_of(reply_to, text) :
        \E r \in {group_message(chat, sender, reply_to, text, oks)} :
            /\ Len(r.msgs) <= MaxGroupMsgs
            /\ clock + Elapsed(r.tsv, r.msgs) <= MaxClock + 1
            /\ clock' = clock + Elapsed(r.tsv, r.msgs)
            /\ tsv' = r.tsv
            /\ group_msgs' = r.msgs
            /\ message_mappings' = r.mm
            /\ db_file' = Persist(user_languages, r.mm, autoreply_mappings)
            /\ ev' = r.ev
    /\ UNCHANGED <<user_languages, autoreply_mappings, cfg, pc, delivered, decided, last_set>>
    /\ quiet' = (traces' = traces)

\* handle_group_mention, lines 843-931: a group text that is no reply.  After
\* the mention test of line 849 the handler is the mention branch of
\* handle_group_message, statement for statement.
group_mention(chat, sender, mid, text, oks) ==
    LET mb == mention_branch(chat, sender, mid, text, oks)
        base == [kind |-> "group_mention", chat |-> chat, sender |-> sender, mid |-> mid,
                 text |-> text, mentioned |-> is_bot_mentioned(text), edits |-> <<>>,
                 transport_ok |-> \A i \in 1..4 : oks[i]]
    IN  IF ~is_bot_mentioned(text)
        THEN [msgs |-> group_msgs, mm |-> message_mappings,
              ev |-> base @@ [outcome |-> "ignored", sends |-> <<>>, calls |-> <<>>]]
        ELSE [msgs |-> mb.t.msgs, mm |-> mb.mm,
              ev |-> base @@ [outcome |-> mb.outcome, sends |-> mb.t.sends,
                              calls |-> mb.calls]]

\* The handler is registered for group texts that are no reply (~filters.REPLY,
\* line 1199).
handle_group_mention ==
    /\ Idle
    /\ \E chat \in Groups, sender \in Members, text \in MentionTexts, oks \in Outcomes :
        \E r \in {group_mention(chat, sender, IncomingId(clock), text, oks)} :
            /\ Len(r.msgs) <= MaxGroupMsgs
            /\ clock + Elapsed(tsv, r.msgs) <= MaxClock + 1
            /\ clock' = clock + Elapsed(tsv, r.msgs)
            /\ group_msgs' = r.msgs
            /\ message_mappings' = r.mm
            /\ db_file' = Persist(user_languages, r.mm, autoreply_mappings)
            /\ ev' = r.ev
    /\ UNCHANGED <<user_languages, autoreply_mappings, tsv, cfg, pc, delivered, decided,
                   last_set>>
    /\ quiet' = (traces' = traces)

Next ==
    \/ PrivateForward
    \/ PrivateOffer
    \/ handle_approval_callback
    \/ handle_group_message

\* start, lines 32-58: the reply to /start.  keyboard: whether the reply
\* carries the language-selection keyboard.
start_reply(u) ==
    LET user_language == get_user_language(user_languages, u)
    IN  IF user_language = DEFAULT_LANGUAGE
        THEN [keyboard |-> TRUE, text |-> LANGUAGES(DEFAULT_LANGUAGE, "welcome")]
        ELSE [keyboard |-> FALSE, text |-> LANGUAGES(user_language, "welcome")]

start ==
    /\ Idle
    /\ \E u \in Users :
        \E r \in {start_reply(u)} :
            ev' = [kind |-> "start", user |-> u, keyboard |-> r.keyboard,
                   sends |-> <<Send(u, r.text)>>, edits |-> <<>>]
    /\ UNCHANGED <<user_languages, message_mappings, autoreply_mappings, tsv, group_msgs, clock,
                   cfg, pc, delivered, decided, db_file, last_set>>
    /\ quiet' = (traces' = traces)

NextLang ==
    \/ language_callback
    \/ start

\* SimpleDatabase.store_message_mapping called by a client of the store, with
\* the three positional arguments it declares.
db_store_message_mapping ==
    /\ Idle
    /\ \E user_message_id \in {IncomingId(1), IncomingId(2)}, group_message_id \in 1..MaxGroupMsgs,
          user_id \in Users :
        LET key == str(group_message_id)
            r == store_message_mapping(message_mappings,
                                       <<user_message_id, group_message_id, user_id>>)
        IN  /\ message_mappings' = r.data
            /\ db_file' = Persist(user_languages, r.data, autoreply_mappings)
            /\ ev' = [kind |-> "store_message_mapping", key |-> key, raised |-> r.raised,
                      existed |-> key \in DOMAIN message_mappings,
                      before |-> Get(message_mappings, key, NoneInfo),
                      sends |-> <<>>, edits |-> <<>>]
    /\ UNCHANGED <<user_languages, autoreply_mappings, tsv, group_msgs, clock, cfg, pc,
                   delivered, decided, last_set>>
    /\ quiet' = (traces' = traces)

NextDb ==
    \/ db_store_message_mapping

\* store_autoreply_mapping as its caller sees it: the method has no raise
\* statement and no test of the key (lines 97-104).
store_autoreply_mapping_call(am, autoreply_message_id, user_id, question, autoreply) ==
    [raised |-> FALSE,
     data |-> store_autoreply_mapping(am, autoreply_message_id, user_id, question, autoreply)]

\* The message ids a client of the store uses as keys.
PersistIds == 1..2

\* SimpleDatabase.store_autoreply_mapping called by a client of the store.
db_store_autoreply_mapping ==
    /\ Idle
    /\ \E autoreply_message_id \in PersistIds, user_id \in Users, question \in UserTexts :
        LET key == str(autoreply_message_id)
            r == store_autoreply_mapping_call(autoreply_mappings, autoreply_message_id,
                                              user_id, question, generate_autoreply(question))
        IN  /\ autoreply_mappings' = r.data
            /\ db_file' = Persist(user_languages, message_mappings, r.data)
            /\ ev' = [kind |-> "store_autoreply_mapping", key |-> key, raised |-> r.raised,
                      existed |-> key \in DOMAIN autoreply_mappings,
                      before |-> Get(autoreply_mappings, key, NoneInfo),
                      sends |-> <<>>, edits |-> <<>>]
    /\ UNCHANGED <<user_languages, message_mappings, tsv, group_msgs, clock, cfg, pc,
                   delivered, decided, last_set>>
    /\ quiet' = (traces' = traces)

NextAuto ==
    \/ db_store_autoreply_mapping

\* The mutating methods of SimpleDatabase called one after another by a
\* client of the store, and the process restarted in between: __init__ loads
\* self.data from db_file (lines 9-27).

op_set_user_language ==
    /\ Idle
    /\ \E user_id \in Users, language \in Langs :
        /\ user_languages' = set_user_language(user_languages, user_id, language)
        /\ last_set' = [last_set EXCEPT ![user_id] = language]
        /\ db_file' = Persist(user_languages', message_mappings, autoreply_mappings)
    /\ ev' = [kind |-> "set_user_language", sends |-> <<>>, edits |-> <<>>]
    /\ UNCHANGED <<message_mappings, autoreply_mappings, tsv, group_msgs, clock, cfg, pc,
                   delivered, decided>>
    /\ quiet' = FALSE

op_store_message_mapping ==
    /\ Idle
    /\ \E group_message_id \in PersistIds, user_id \in Users :
        LET r == store_message_mapping(message_mappings,
                                       <<IncomingId(group_message_id), group_message_id,
                                         user_id>>)
        IN  /\ message_mappings' = r.data
            /\ db_file' = Persist(user_languages, r.data, autoreply_mappings)
    /\ ev' = [kind |-> "store_message_mapping", sends |-> <<>>, edits |-> <<>>]
    /\ UNCHANGED <<user_languages, autoreply_mappings, tsv, group_msgs, clock, cfg, pc,
                   delivered, decided, last_set>>
    /\ quiet' = FALSE

op_store_autoreply_mapping ==
    /\ Idle
    /\ \E autoreply_message_id \in {2}, user_id \in Users, question \in UserTexts :
        /\ autoreply_mappings' =
               store_autoreply_mapping(autoreply_mappings, autoreply_message_id, user_id,
                                       question, generate_autoreply(question))
        /\ db_file' = Persist(user_languages, message_mappings, autoreply_mappings')
    /\ ev' = [kind |-> "store_autoreply_mapping", sends |-> <<>>, edits |-> <<>>]
    /\ UNCHANGED <<user_languages, message_mappings, tsv, group_msgs, clock, cfg, pc,
                   delivered, decided, last_set>>
    /\ quiet' = FALSE

\* The process stops and starts again: self.data is what _load_data reads.
restart ==
    /\ Idle
    /\ ev.kind # "restart"
    /\ LET data == _load_data(db_file)
       IN  /\ user_languages' = data.user_languages
           /\ message_mappings' = data.message_mappings
           /\ autoreply_mappings' = data.autoreply_mappings
           /\ ev' = [kind |-> "restart", before |-> stores, sends |-> <<>>, edits |-> <<>>]
    /\ UNCHANGED <<tsv, group_msgs, clock, cfg, pc, delivered, decided, db_file, last_set>>
    /\ quiet' = FALSE

NextPersist ==
    \/ op_set_user_language
    \/ op_store_message_mapping
    \/ op_store_autoreply_mapping
    \/ restart

\* The optional arguments of add_conversation and update_conversation a caller
\* can pass by keyword, and the column each is written to.
Optional == {"autoreply", "manual_reply", "is_approved"}

Column(field) ==
    IF field = "autoreply" THEN 3 ELSE IF field = "manual_reply" THEN 4 ELSE 5

\* The value the method gets for an optional argument: the caller's, or the
\* default of the signature (lines 45, 54).
Argument(field, supplied) ==
    IF field \in supplied
    THEN IF field = "autoreply" THEN <<"generated">>
         ELSE IF field = "manual_reply" THEN <<"manual">>
         ELSE <<"Approved">>
    ELSE IF field = "is_approved" THEN PyNone ELSE <<>>

\* update_conversation as its caller sees it: the method has no raise
\* statement, and TSV_FILE exists since _init_tsv_file.
update_conversation_call(rows, question, supplied, timestamp) ==
    [raised |-> FALSE,
     rows |-> update_conversation(rows, question, Argument("autoreply", supplied),
                                  Argument("manual_reply", supplied),
                                  Argument("is_approved", supplied), timestamp)]

db_add_conversation ==
    /\ Idle
    /\ Len(tsv) <= MaxRows
    /\ \E question \in UserTexts, supplied \in SUBSET Optional :
        /\ tsv' = add_conversation(tsv, question, Argument("autoreply", supplied),
                                   Argument("manual_reply", supplied),
                                   Argument("is_approved", supplied), isoformat(clock))
        /\ ev' = [kind |-> "add_conversation", supplied |-> supplied, before |-> tsv,
                  raised |-> FALSE, sends |-> <<>>, edits |-> <<>>]
    /\ UNCHANGED <<user_languages, message_mappings, autoreply_mappings, group_msgs, clock, cfg,
                   pc, delivered, decided, db_file, last_set>>
    /\ quiet' = FALSE

db_update_conversation ==
    /\ Idle
    /\ ev.kind # "update_conversation"
    /\ \E question \in UserTexts, supplied \in SUBSET Optional :
        LET r == update_conversation_call(tsv, question, supplied, isoformat(clock))
        IN  /\ tsv' = r.rows
            /\ ev' = [kind |-> "update_conversation", supplied |-> supplied, before |-> tsv,
                      raised |-> r.raised, sends |-> <<>>, edits |-> <<>>]
    /\ UNCHANGED <<user_languages, message_mappings, autoreply_mappings, group_msgs, clock, cfg,
                   pc, delivered, decided, db_file, last_set>>
    /\ quiet' = FALSE

NextLog ==
    \/ db_add_conversation
    \/ db_update_conversation

\* handle_private_message (lines 93-164) and handle_media_message (lines
\* 480-582) one call at a time: the calls the two handlers make inside their
\* try block, in the order of the code.
private_steps_audit_first ==
    <<"send_copy", "add_conversation", "store_message_mapping", "send_control",
      "update_conversation", "store_autoreply_mapping", "confirm">>

\* a handler that stores the relay record only after the control message
private_steps_store_late ==
    <<"send_copy", "add_conversation", "send_control", "store_message_mapping",
      "store_autoreply_mapping", "update_conversation", "confirm">>

private_steps ==
    <<"send_copy", "store_message_mapping", "add_conversation", "send_control",
      "store_autoreply_mapping", "update_conversation", "confirm">>

\* the calls inside `if SEMI_AUTOREPLY_MODE:`
OfferSteps == {"send_control", "store_autoreply_mapping", "update_conversation"}

\* a handler that offers whatever the mode
IsStepOfRun_always(step) == TRUE

IsStepOfRun(step) == cfg.autoreply \/ step \notin OfferSteps

\* the calls of one run of the handler
steps_of_run == SelectSeq(private_steps, IsStepOfRun)

\* What a user sends in private: a text, or a medium (text: its caption, <<>>
\* for none).
PrivateContents ==
    {[media |-> FALSE, text |-> <<"Hello">>], [media |-> TRUE, text |-> <<>>]}

\* The text of the copy: message_text (line 90), or the caption of the
\* forwarded medium (lines 473-475) after a token that stands for the medium.
copy_text(u, content) ==
    IF ~content.media THEN private_message_text(u, content.text)
    ELSE <<"[medium]", "From: @", user_handle(u)>>
             \o (IF content.text # <<>> THEN <<"\n\n">> \o content.text ELSE <<>>)

\* The question the handler logs: the text, or media_text (line 534).
logged_question(content) ==
    IF content.media /\ content.text = <<>> THEN <<"[Media message]">> ELSE content.text

start_private ==
    /\ Idle
    /\ clock <= MaxClock
    /\ Len(group_msgs) + (IF cfg.autoreply THEN 2 ELSE 1) <= MaxGroupMsgs
    /\ \E u \in {1}, content \in PrivateContents :
        ev' = [kind |-> "private_steps", user |-> u, content |-> content,
               question |-> logged_question(content), mid |-> IncomingId(clock),
               timestamp |-> isoformat(clock),
               language |-> get_user_language(user_languages, u),
               step |-> 1, sent_id |-> 0, control_id |-> 0, outcome |-> "running",
               sends |-> <<>>, edits |-> <<>>]
    /\ pc' = "running"
    /\ clock' = clock + 1
    /\ UNCHANGED <<user_languages, message_mappings, autoreply_mappings, tsv, group_msgs, cfg,
                   delivered, decided, db_file, last_set>>
    /\ quiet' = FALSE

\* The state after the call named step; ok: whether a transport call succeeds.
\* A failed call ends the run in the except clause (lines 162-164, 580-582).
private_step(step, ok) ==
    LET u == ev.user
        autoreply == generate_autoreply(ev.question)
        autoreply_text == LANGUAGES(ev.language, "generated_reply") \o <<"\n\n">> \o autoreply
        t0 == [msgs |-> group_msgs, sends |-> ev.sends]
        sent == IF step = "send_copy"
                THEN Emit(t0, GROUP_ID, copy_text(u, ev.content), 0, cfg.topic)
                ELSE IF step = "send_control"
                THEN Emit(t0, GROUP_ID, autoreply_text, ev.sent_id, cfg.topic)
                ELSE IF step = "confirm"
                THEN Emit(t0, u, LANGUAGES(ev.language, "message_forwarded"), 0, <<>>)
                ELSE t0
        stored == store_message_mapping(message_mappings, <<ev.mid, ev.sent_id, u>>)
        same == [mm |-> message_mappings, am |-> autoreply_mappings, tsv |-> tsv,
                 msgs |-> group_msgs, ev |-> ev]
        done == step = steps_of_run[Len(steps_of_run)]
        next == [ev EXCEPT !.step = @ + 1, !.sends = sent.sends,
                           !.outcome = IF done THEN "done" ELSE "running",
                           !.sent_id = IF step = "send_copy" THEN SentId(sent) ELSE @,
                           !.control_id = IF step = "send_control" THEN SentId(sent) ELSE @]
    IN  IF ~ok
        THEN [same EXCEPT !.ev = [ev EXCEPT !.outcome = "error",
                  !.sends = Append(@, Send(u, LANGUAGES(ev.language, "error_occurred")))]]
        ELSE [mm |-> IF step = "store_message_mapping" THEN stored.data ELSE message_mappings,
              am |-> IF step = "store_autoreply_mapping"
                     THEN store_autoreply_mapping(autoreply_mappings, ev.control_id, u,
                                                  ev.question, autoreply)
                     ELSE autoreply_mappings,
              tsv |-> IF step = "add_conversation"
                      THEN add_conversation(tsv, ev.question, <<>>, <<>>, PyNone, ev.timestamp)
                      ELSE IF step = "update_conversation"
                      THEN update_conversation(tsv, ev.question, autoreply, <<>>, PyNone,
                                               ev.timestamp)
                      ELSE tsv,
              msgs |-> sent.msgs,
              ev |-> next]

TransportSteps == {"send_copy", "send_control", "confirm"}

step_private ==
    /\ pc = "running"
    /\ \E ok \in BOOLEAN :
        LET step == steps_of_run[ev.step]
            r == private_step(step, ok)
        IN  /\ ok \/ step \in TransportSteps
            /\ message_mappings' = r.mm
            /\ autoreply_mappings' = r.am
            /\ db_file' = Persist(user_languages, r.mm, r.am)
            /\ tsv' = r.tsv
            /\ group_msgs' = r.msgs
            /\ ev' = r.ev
            /\ pc' = IF r.ev.outcome = "running" THEN "running" ELSE "idle"
    /\ UNCHANGED <<user_languages, clock, cfg, delivered, decided, last_set>>
    /\ quiet' = FALSE

\* The process stops between two calls of a handler and is started again:
\* self.data is read from db_file; the log and the sent messages stay.
crash ==
    /\ pc = "running"
    /\ LET data == _load_data(db_file)
       IN  /\ user_languages' = data.user_languages
           /\ message_mappings' = data.message_mappings
           /\ autoreply_mappings' = data.autoreply_mappings
    /\ ev' = [kind |-> "crash", at |-> steps_of_run[ev.step], sends |-> <<>>, edits |-> <<>>]
    /\ pc' = "idle"
    /\ UNCHANGED <<tsv, group_msgs, clock, cfg, delivered, decided, db_file, last_set>>
    /\ quiet' = FALSE

NextCrash ==
    \/ start_private
    \/ step_private
    \/ crash

NextMention ==
    \/ handle_group_mention

\* The private handler and the two handlers of group texts (replies: line
\* 1187, the others: line 1199).
NextGroups ==
    \/ PrivateForward
    \/ PrivateOffer
    \/ handle_group_message
    \/ handle_group_mention

Spec == Init /\ [][Next]_vars

SpecMention == Init /\ [][NextMention]_vars

SpecGroups == Init /\ [][NextGroups]_vars

SpecPersist == Init /\ [][NextPersist]_vars

SpecLog == Init /\ [][NextLog]_vars

SpecCrash == Init /\ [][NextCrash]_vars

SpecLang == Init /\ [][NextLang]_vars

SpecDb == Init /\ [][NextDb]_vars

SpecAuto == Init /\ [][NextAuto]_vars
-----------------------------------------------------------------------------
(* The claims. *)

\* The relay ids that were never passed to store_message_mapping: the ids no
\* message of the group has yet, and the ids of the control messages.
NeverRecorded ==
    {i \in 1..MaxGroupMsgs + 1 :
        i > Len(group_msgs) \/ group_msgs[i].callback_id # 0}

\* The fields a call of store_message_mapping hands over: origin user, origin
\* message id, source group (NoGroup when the caller names none).
FieldsOf(args) == <<args[3], args[1], IF Len(args) = 4 THEN args[4] ELSE NoGroup>>

\* C1: a relay id never recorded resolves to None, and after a call of
\* store_message_mapping the lookup of its relay id returns the fields of the
\* call, the source group among them.
C1_RelayRoundTrip ==
    /\ \A i \in NeverRecorded :
           get_user_from_group_message(message_mappings, i) = NoneTuple
    /\ ev.kind \in {"private", "group_reply"} =>
           \A n \in 1..Len(ev.calls) :
               get_user_from_group_message(message_mappings, ev.calls[n][2])
                   = FieldsOf(ev.calls[n])

\* C2: an operator's text reply in the support group to a relayed message whose
\* record names a user is sent to that user.
C2_OperatorReplyDelivered ==
    (ev.kind = "group_reply" /\ ev.chat = GROUP_ID /\ ev.found) =>
        \E n \in 1..Len(ev.sends) :
            /\ ev.sends[n].chat = message_mappings[str(ev.reply_to)].user_id
            /\ Contains(ev.sends[n].text, ev.text)

\* The control messages whose buttons carry the id.
ControlsOf(id) == {i \in 1..Len(group_msgs) : group_msgs[i].callback_id = id}

\* C3: with the mode on, an Approve callback that carries the data of the
\* buttons of an offer, and whose transport calls succeed, sends the generated
\* reply of that offer to its user.
C3_ApproveDelivers ==
    (ev.kind = "callback" /\ ev.action = "approve" /\ ev.from_button
        /\ ev.outcome # "error") =>
        \A i \in ControlsOf(ev.id) :
            \E n \in 1..Len(ev.sends) :
                /\ ev.sends[n].chat = autoreply_mappings[str(i)].user_id
                /\ Contains(ev.sends[n].text, autoreply_mappings[str(i)].autoreply)

\* C4: a record is decided at most once; a decision callback on a record that
\* was decided before is refused.
C4_DecidedOnce ==
    /\ \A k \in DOMAIN decided : decided[k] <= 1
    /\ (ev.kind = "callback" /\ ev.decided_before > 0) =>
           ev.outcome \notin {"approved", "discarded"}

\* C5: whatever callbacks carry the key of an autoreply record, its generated
\* reply is sent to the user at most once.
C5_DeliveredAtMostOnce == \A k \in DOMAIN delivered : delivered[k] <= 1

\* C6: a Discard callback sends no message at all; it edits the control
\* message, once.
C6_DiscardSendsNothing ==
    (ev.kind = "callback" /\ ev.action = "discard") =>
        /\ ev.sends = <<>>
        /\ Len(ev.edits) = 1

C6_Witness ==
    /\ ev.kind = "callback"
    /\ ev.action = "discard"
    /\ ev.outcome = "discarded"
    /\ tsv[Len(tsv)][5] = <<"Discarded">>

\* The relay copy of the turn appended last.
LastRelayId ==
    LET ids == {i \in 1..Len(group_msgs) : str(i) \in DOMAIN message_mappings}
    IN  IF ids = {} THEN 0 ELSE CHOOSE i \in ids : \A j \in ids : j <= i

\* C7: after a decision callback that carries the data of the buttons offered
\* for the turn appended last, the last row's approval outcome is the decision.
C7_DecisionRecorded ==
    (ev.kind = "callback" /\ ev.from_button /\ ev.id = LastRelayId
        /\ ev.outcome # "error") =>
        tsv[Len(tsv)][5] = IF ev.action = "approve" THEN <<"Approved">> ELSE <<"Discarded">>

\* C8: store_message_mapping under a relay id that has a record already is
\* refused, and the record stays as it was.
C8_DuplicateRefused ==
    (ev.kind = "store_message_mapping" /\ ev.existed) =>
        /\ ev.raised
        /\ message_mappings[ev.key] = ev.before

\* C9: get_user_language returns the default language for a user without a
\* stored language, and the language of the user's latest set_user_language
\* call otherwise, whatever was set for other users.
C9_LanguageLastWriteWins ==
    \A u \in Users :
        get_user_language(user_languages, u)
            = IF last_set[u] = "none" THEN DEFAULT_LANGUAGE ELSE last_set[u]

C9_Witness ==
    /\ ev.kind = "language"
    /\ last_set[1] = "ka"
    /\ last_set[2] = "ru"

\* C10: when the text of a user is forwarded, the relay map gains one record,
\* under the id of the copy, with the user and the id of the user's message, and
\* the log gains one row: the timestamp, the text, no autoreply, no manual
\* reply, no approval outcome.  Nothing else in either changes.
C10_ForwardRecordsAndAppends ==
    [][(pc = "idle" /\ ev'.kind = "private" /\ ev'.sent_id # 0) =>
        LET key == str(ev'.sent_id)
        IN  /\ pc' = "appended"
            /\ ev'.sent_id = Len(group_msgs')
            /\ key \notin DOMAIN message_mappings
            /\ DOMAIN message_mappings' = DOMAIN message_mappings \cup {key}
            /\ \A k \in DOMAIN message_mappings : message_mappings'[k] = message_mappings[k]
            /\ message_mappings'[key] = [user_message_id |-> ev'.mid, user_id |-> ev'.user]
            /\ tsv' = Append(tsv, <<ev'.timestamp, ev'.text, <<>>, <<>>, <<>>>>)]_vars

C10_Witness ==
    /\ pc = "appended"
    /\ Len(tsv) = 3
    /\ ev.user = 1
    /\ cfg.autoreply

\* C11: with the mode on, the offer step leaves the log with as many rows as
\* before, and the last row holds the timestamp and the text of the user's
\* message, the generated reply, no manual reply and no approval outcome.
C11_OfferUpdatesLastTurn ==
    [][(pc = "appended" /\ cfg.autoreply /\ group_msgs' # group_msgs) =>
        /\ Len(tsv') = Len(tsv)
        /\ \A i \in 1..(Len(tsv) - 1) : tsv'[i] = tsv[i]
        /\ tsv'[Len(tsv')] = <<ev.timestamp, ev.text, generate_autoreply(ev.text), <<>>, <<>>>>]_vars

C11_Witness ==
    /\ pc = "idle"
    /\ ev.kind = "private"
    /\ ev.outcome = "offered"
    /\ ev.text = <<"Help">>
    /\ Len(tsv) = 3
    /\ tsv[Len(tsv)][3] = generate_autoreply(<<"Help">>)

\* C12: a mention with text left after the mention is removed, written in a
\* group that is not the support destination and handled with every transport
\* call succeeding, is forwarded to the support destination; the relay map
\* holds, under the id of the copy, the member, the id of the member's message
\* and the group as source group; the confirmation, not the error notice, is
\* sent to the group, and nothing is sent to a user.
C12_MentionForwarded ==
    (ev.kind = "group_mention" /\ ev.chat # GROUP_ID /\ ev.mentioned
        /\ Remove(ev.text, Mention) # <<>> /\ ev.transport_ok) =>
        /\ ev.outcome = "forwarded"
        /\ \E i \in 1..Len(group_msgs) :
               /\ Contains(group_msgs[i].text, Remove(ev.text, Mention))
               /\ ~Contains(group_msgs[i].text, <<Mention>>)
               /\ get_user_from_group_message(message_mappings, i)
                      = <<ev.sender, ev.mid, ev.chat>>
        /\ \E n \in 1..Len(ev.sends) :
               ev.sends[n] = Send(ev.chat,
                                  <<"Your message has been forwarded to the support team.">>)
        /\ \A n \in 1..Len(ev.sends) :
               /\ ev.sends[n].chat \in Groups
               /\ ev.sends[n].text # <<"An error occurred while forwarding your message.">>

\* The group a message of the support group was forwarded from: the copy of a
\* mention names it in its first line (NoGroup: the message is no such copy).
SourceGroupOf(i) ==
    IF Len(group_msgs[i].text) >= 2 /\ group_msgs[i].text[1] = "From group: "
    THEN CHOOSE g \in Groups : group_title(g) = group_msgs[i].text[2]
    ELSE NoGroup

\* C13: an operator's reply in the support group to the copy of a mention that
\* was forwarded from another group is sent to that group, and to no user.
C13_ChainedReplyToSourceGroup ==
    (ev.kind = "group_reply" /\ ev.chat = GROUP_ID /\ ev.reply_to \in 1..Len(group_msgs)
        /\ SourceGroupOf(ev.reply_to) = SourceGroup) =>
        /\ \E n \in 1..Len(ev.sends) :
               /\ ev.sends[n].chat = SourceGroup
               /\ Contains(ev.sends[n].text, ev.text)
        /\ \A n \in 1..Len(ev.sends) : ev.sends[n].chat \notin Users

\* C18: after every completed operation the document in db_file is the image
\* of the three maps in memory, and a restart reads back the maps the process
\* held before it.
C18_RestartRecovers ==
    /\ _load_data(db_file) = Data(user_languages, message_mappings, autoreply_mappings)
    /\ ev.kind = "restart" => stores = ev.before

C18_Witness ==
    /\ ev.kind = "restart"
    /\ DOMAIN user_languages = {"1", "2"}
    /\ DOMAIN message_mappings = {"1", "2"}
    /\ DOMAIN autoreply_mappings = {"2"}

\* C14: update_conversation on a log with a turn changes, on the last turn, the
\* optional fields the caller passes, and leaves every optional field the
\* caller does not pass as it was; no row is added.
C14_UpdateMerges ==
    (ev.kind = "update_conversation" /\ Len(ev.before) > 1) =>
        /\ Len(tsv) = Len(ev.before)
        /\ \A field \in Optional :
               tsv[Len(tsv)][Column(field)] =
                   IF field \in ev.supplied
                   THEN csv_cell(Argument(field, ev.supplied))
                   ELSE ev.before[Len(ev.before)][Column(field)]

\* C15: update_conversation on a log that holds the header only fails, and
\* the log stays as it was.
C15_EmptyLogRefused ==
    (ev.kind = "update_conversation" /\ Len(ev.before) = 1) =>
        /\ ev.raised
        /\ tsv = ev.before

\* The turns of the log.
Turns == 2..Len(tsv)

\* C16: whenever the process can stop, the relay records in db_file are at
\* least as many as the turns of the log, and every turn with an autoreply has
\* in db_file the autoreply record with its question and its autoreply.
C16_RecordsPersistedBeforeAudit ==
    LET data == _load_data(db_file)
    IN  /\ Cardinality(DOMAIN data.message_mappings) >= Cardinality(Turns)
        /\ \A r \in Turns :
               tsv[r][3] # <<>> =>
                   \E k \in DOMAIN data.autoreply_mappings :
                       /\ data.autoreply_mappings[k].question = tsv[r][2]
                       /\ data.autoreply_mappings[k].autoreply = tsv[r][3]

C16_Witness ==
    /\ ev.kind = "crash"
    /\ ev.at = "update_conversation"
    /\ Len(tsv) = 3
    /\ tsv[2][3] # <<>>
    /\ tsv[3][2] = <<"[Media message]">>

\* A call of store_message_mapping made for the update that left no record.
StoreFailed ==
    \E n \in 1..Len(ev.calls) : str(ev.calls[n][2]) \notin DOMAIN message_mappings

\* C17: an update during which a store of a relay record failed has forwarded
\* nothing to the support destination.
C17_FailedStoreMeansNoDelivery ==
    (ev.kind = "group_mention" /\ StoreFailed) =>
        \A n \in 1..Len(ev.sends) : ev.sends[n].chat # GROUP_ID

\* C19: no update removes or changes a record of the relay map: every key
\* stays, with the record it had.
C19_RelayMapAppendOnly ==
    [][\A k \in DOMAIN message_mappings :
          /\ k \in DOMAIN message_mappings'
          /\ message_mappings'[k] = message_mappings[k]]_vars

C19_Witness ==
    /\ DOMAIN message_mappings = {"1", "3"}
    /\ message_mappings["1"].user_id # message_mappings["3"].user_id
    /\ ev.kind = "callback"

\* C20: a reply written in a group other than the support destination is not
\* handled as an operator reply, whatever message it replies to, and nothing
\* is sent to a user for it.
C20_OperatorReplyOnlyInDestination ==
    (ev.kind = "group_reply" /\ ev.chat # GROUP_ID) =>
        /\ ev.outcome \notin {"replied", "send_failed", "ValueError"}
        /\ \A n \in 1..Len(ev.sends) : ev.sends[n].chat \notin Users

\* The copy of a mention: the message that names the group it comes from.
IsMentionCopy(send) == send.chat = GROUP_ID /\ send.text # <<>> /\ send.text[1] = "From group: "

\* C21: a mention written inside the support destination is not forwarded: no
\* copy of it is sent to the support destination and no store of a relay
\* record is attempted for it.
C21_NoForwardInsideDestination ==
    (ev.kind = "group_mention" /\ ev.chat = GROUP_ID) =>
        /\ \A n \in 1..Len(ev.sends) : ~IsMentionCopy(ev.sends[n])
        /\ ev.calls = <<>>

\* An autoreply record of the user whose question occurs in the text.
HasAutoreplyFor(user_id, replied_text) ==
    \E k \in DOMAIN autoreply_mappings :
        /\ autoreply_mappings[k].user_id = user_id
        /\ Contains(replied_text, autoreply_mappings[k].question)

\* C22: after an operator's text reply in the support group to a message whose
\* record names a user, with the send to the user not failing, the last turn
\* of the log holds the reply text as manual reply, and as approval outcome
\* Discarded when an autoreply record of that user has a question that occurs
\* in the replied-to text, none otherwise.
C22_OperatorReplyLogged ==
    (ev.kind = "group_reply" /\ ev.chat = GROUP_ID /\ ev.found
        /\ ev.outcome # "send_failed" /\ Len(tsv) > 1) =>
        /\ tsv[Len(tsv)][4] = ev.text
        /\ tsv[Len(tsv)][5] =
               IF HasAutoreplyFor(message_mappings[str(ev.reply_to)].user_id,
                                  replied_text_of(ev.chat, ev.reply_to))
               THEN <<"Discarded">> ELSE <<>>

\* C23: when a transport call of the private handlers fails after the copy was
\* forwarded, the relay record of the copy and the turn of the message stay in
\* the store and in the log, and the user is sent the error notice and no
\* confirmation.
C23_NoRollbackAfterForward ==
    (ev.kind = "private_steps" /\ ev.outcome = "error" /\ ev.sent_id # 0) =>
        /\ get_user_from_group_message(message_mappings, ev.sent_id) = <<ev.user, ev.mid>>
        /\ get_user_from_group_message(_load_data(db_file).message_mappings, ev.sent_id)
               = <<ev.user, ev.mid>>
        /\ tsv[Len(tsv)][1] = ev.timestamp
        /\ tsv[Len(tsv)][2] = ev.question
        /\ ev.sends[Len(ev.sends)] = Send(ev.user, LANGUAGES(ev.language, "error_occurred"))
        /\ \A n \in 1..Len(ev.sends) :
               ev.sends[n] # Send(ev.user, LANGUAGES(ev.language, "message_forwarded"))

C23_Witness ==
    /\ ev.kind = "private_steps"
    /\ ev.outcome = "error"
    /\ ev.sent_id # 0
    /\ cfg.autoreply
    /\ ev.control_id = 0
    /\ ev.content.media
    /\ Len(tsv) = 3

\* C24: store_autoreply_mapping under a control message id that has a record
\* already is refused, and the record stays as it was.
C24_DuplicateOfferRefused ==
    (ev.kind = "store_autoreply_mapping" /\ ev.existed) =>
        /\ ev.raised
        /\ autoreply_mappings[ev.key] = ev.before

\* C25: every step that forwards an inbound message to the support
\* destination, be it the text of a user in private or a mention written in a
\* group, adds one turn to the log, and the turn's question is the forwarded
\* content.
C25_ForwardAppendsTurn ==
    [][LET private == pc = "idle" /\ ev'.kind = "private" /\ ev'.sent_id # 0
           mention == /\ ev'.kind \in {"group_reply", "group_mention"}
                      /\ \E n \in 1..Len(ev'.sends) : IsMentionCopy(ev'.sends[n])
       IN  (private \/ mention) =>
               /\ Len(tsv') = Len(tsv) + 1
               /\ \A i \in 1..Len(tsv) : tsv'[i] = tsv[i]
               /\ tsv'[Len(tsv')][2] = IF private THEN ev'.text
                                       ELSE Remove(ev'.text, Mention)]_vars

\* C26: the update made for a decision is not tied to the turn it is meant
\* for: a decision callback that finds its autoreply record rewrites the last
\* row of the log with the question of the record and leaves every other row
\* as it was, whichever user's turn the last row holds.  So a decision on one
\* user's offer that arrives after another user's message replaces the other
\* user's question and leaves the first user's turn without outcome.
C26_UpdateRewritesLastTurn ==
    [][(ev'.kind = "callback" /\ ev'.outcome \in {"approved", "discarded"}) =>
        /\ Len(tsv') = Len(tsv)
        /\ \A i \in 1..(Len(tsv) - 1) : tsv'[i] = tsv[i]
        /\ Len(tsv) > 1 =>
               tsv'[Len(tsv)][2] = autoreply_mappings[str(ev'.id)].question]_vars

C26_Witness ==
    /\ ev.kind = "callback"
    /\ ev.outcome = "approved"
    /\ Len(tsv) = 3
    /\ tsv[2][2] = autoreply_mappings[str(ev.id)].question
    /\ tsv[2][5] = <<>>
    /\ tsv[3][2] = tsv[2][2]
    /\ tsv[3][5] = <<"Approved">>
    /\ \E i \in 1..Len(group_msgs) :
           /\ get_user_from_group_message(message_mappings, i) # NoneTuple
           /\ message_mappings[str(i)].user_id # autoreply_mappings[str(ev.id)].user_id
           /\ ~Contains(group_msgs[i].text, tsv[3][2])

\* C27: add_conversation adds one row at the end of the log and leaves every
\* row the log had as it was; update_conversation leaves the number of rows
\* and every row but the last as they were, and a log of the header alone
\* entirely.
C27_LogFrame ==
    /\ ev.kind = "add_conversation" =>
           /\ Len(tsv) = Len(ev.before) + 1
           /\ \A i \in 1..Len(ev.before) : tsv[i] = ev.before[i]
    /\ ev.kind = "update_conversation" =>
           /\ Len(tsv) = Len(ev.before)
           /\ \A i \in 1..(Len(ev.before) - 1) : tsv[i] = ev.before[i]
           /\ tsv[1] = ev.before[1]

C27_Witness ==
    /\ ev.kind = "update_conversation"
    /\ Len(tsv) = 3
    /\ tsv[2] # tsv[3]
    /\ tsv[3] # ev.before[3]
    /\ tsv[2][2] # ev.before[3][2]

\* C28: for every offer, the id in the callback data of its buttons is the key
\* of its autoreply record: the lookup a decision callback makes with that id
\* returns the record stored for the offer.
C28_ButtonsCarryRecordKey ==
    \A i \in 1..Len(group_msgs) :
        (group_msgs[i].callback_id # 0 /\ str(i) \in DOMAIN autoreply_mappings) =>
            /\ group_msgs[i].callback_id = i
            /\ get_autoreply_info(autoreply_mappings, group_msgs[i].callback_id)
                   = autoreply_mappings[str(i)]

\* C29: a handled group mention puts at most one copy into the support
\* destination, with or without a TOPIC_ID.
C29_AtMostOneCopy ==
    ev.kind \in {"group_mention", "group_reply"} =>
        Cardinality({n \in 1..Len(ev.sends) : IsMentionCopy(ev.sends[n])}) <= 1

\* C30: a row of the log comes to hold the outcome Approved only in an Approve
\* callback that sent the generated reply of its record to the record's user;
\* an Approve callback whose send to the user fails leaves the log as it was.
C30_ApprovedOnlyWhenDelivered ==
    [][/\ (\E i \in 2..Len(tsv') :
              /\ tsv'[i][5] = <<"Approved">>
              /\ i > Len(tsv) \/ tsv'[i] # tsv[i]) =>
           /\ ev'.kind = "callback"
           /\ ev'.action = "approve"
           /\ \E n \in 1..Len(ev'.sends) :
                  /\ ev'.sends[n].chat = autoreply_mappings[str(ev'.id)].user_id
                  /\ Contains(ev'.sends[n].text, autoreply_mappings[str(ev'.id)].autoreply)
       /\ (ev'.kind = "callback" /\ ev'.action = "approve" /\ ev'.sends = <<>>) =>
              tsv' = tsv]_vars

C30_Witness ==
    /\ ev.kind = "callback"
    /\ ev.action = "approve"
    /\ ev.outcome = "error"
    /\ get_autoreply_info(autoreply_mappings, ev.id) # NoneInfo
    /\ Len(tsv) = 2
    /\ tsv[2][3] = autoreply_mappings[str(ev.id)].autoreply
    /\ tsv[2][5] = <<>>

\* C31: a turn whose approval outcome is Approved keeps that outcome: no step
\* sets it to Discarded or clears it.
C31_ApprovedIsFinal ==
    [][\A i \in 2..Len(tsv) :
          tsv[i][5] = <<"Approved">> =>
              /\ i <= Len(tsv')
              /\ tsv'[i][5] = <<"Approved">>]_vars

\* C32: a decision callback whose id is the key of no autoreply record sends
\* nothing, leaves the three maps, their file and the log as they were, and
\* edits the control message once, to the not-found error.
C32_NotFoundChangesNothing ==
    [][(ev'.kind = "callback" /\ str(ev'.id) \notin DOMAIN autoreply_mappings) =>
        /\ ev'.sends = <<>>
        /\ ev'.edits = <<<<"Error: Autoreply info not found">>>>
        /\ UNCHANGED <<user_languages, message_mappings, autoreply_mappings, db_file, tsv,
                       group_msgs, delivered>>]_vars

C32_Witness ==
    /\ ev.kind = "callback"
    /\ ev.outcome = "not_found"
    /\ ev.from_button
    /\ ev.action = "approve"
    /\ DOMAIN autoreply_mappings # {}
    /\ tsv[Len(tsv)][3] # <<>>
    /\ tsv[Len(tsv)][5] = <<>>

\* C33: a group reply to a message without a relay record that does not name
\* the bot, and a group text that is no reply and does not name the bot, send
\* nothing and leave the three maps, their file, the log and the messages of
\* the support group as they were.
C33_UnaddressedGroupTextIgnored ==
    [][(/\ ev'.kind \in {"group_reply", "group_mention"}
        /\ ev'.kind = "group_reply" => ~ev'.found
        /\ ~Contains(ev'.text, <<Mention>>)
        /\ ~Contains(ev'.text, <<"/" \o BotName>>)) =>
        /\ ev'.sends = <<>>
        /\ ev'.outcome = "ignored"
        /\ UNCHANGED <<user_languages, message_mappings, autoreply_mappings, db_file, tsv,
                       group_msgs>>]_vars

C33_Witness ==
    /\ ev.kind = "group_mention"
    /\ ev.text = <<"ping">>
    /\ ev.outcome = "ignored"
    /\ DOMAIN message_mappings = {"1", "3"}
    /\ Len(group_msgs) = 4
    /\ Len(tsv) = 3

\* C34: a group text that names the bot and holds nothing else sends nothing
\* to the support destination, has no store of a relay record attempted, and
\* gets neither the confirmation nor the error notice.
C34_BareMentionIgnored ==
    (/\ ev.kind \in {"group_mention", "group_reply"}
     /\ ev.kind = "group_reply" => ~ev.found
     /\ ev.text \in {<<Mention>>, <<"/" \o BotName>>}) =>
        /\ ev.sends = <<>>
        /\ ev.calls = <<>>
        /\ ev.outcome = "ignored"

\* C35: with the mode off, no autoreply record exists, in memory or in
\* db_file, no message of the support group carries buttons, and no turn of
\* the log has an autoreply; so a record exists only where the mode is on.
C35_NoOfferWhenModeOff ==
    ~cfg.autoreply =>
        /\ autoreply_mappings = <<>>
        /\ DOMAIN _load_data(db_file).autoreply_mappings = {}
        /\ \A i \in 1..Len(group_msgs) : group_msgs[i].callback_id = 0
        /\ \A r \in Turns : tsv[r][3] = <<>>

C35_Witness ==
    /\ ~cfg.autoreply
    /\ ev.kind = "private_steps"
    /\ ev.outcome = "done"
    /\ ev.content.media
    /\ Len(tsv) = 3
    /\ Len(group_msgs) = 2

\* C36: the reply to /start carries the language-selection keyboard exactly
\* when no language is stored for the user; a user with a stored language,
\* the default one included, gets the welcome text of that language without
\* the keyboard.
C36_StartAsksOnlyWithoutLanguage ==
    ev.kind = "start" =>
        /\ ev.keyboard <=> str(ev.user) \notin DOMAIN user_languages
        /\ str(ev.user) \in DOMAIN user_languages =>
               ev.sends = <<Send(ev.user, LANGUAGES(user_languages[str(ev.user)], "welcome"))>>

\* The timestamps get_timestamp can have handed out.
Timestamps == {isoformat(t) : t \in 1..(MaxClock + 1)}

\* C37: the log starts with the header row, every turn has five fields, a
\* timestamp, a question, an autoreply or nothing, a manual reply or nothing,
\* and an approval outcome, in this order, and the approval outcome is empty,
\* Approved or Discarded.
C37_LogWellFormed ==
    /\ Len(tsv) >= 1
    /\ tsv[1] = Header
    /\ \A r \in Turns :
           /\ Len(tsv[r]) = 5
           /\ tsv[r][1] \in Timestamps
           /\ tsv[r][2] \in UserTexts
           /\ tsv[r][3] \in {<<>>, generate_autoreply(tsv[r][2])}
           /\ tsv[r][4] \in {<<>>} \cup GroupTexts
           /\ tsv[r][5] \in {<<>>, <<"Approved">>, <<"Discarded">>}

C37_Witness ==
    /\ Len(tsv) = 3
    /\ tsv[2][5] = <<"Approved">>
    /\ tsv[3][3] # <<>>
    /\ tsv[3][5] = <<>>
    /\ tsv[2][1] # tsv[3][1]
====
